---- MODULE Spec2Model ----
(***************************************************************************)
(* Scrybe: the presentation shell (App), the capture engine               *)
(* (AudioRecorder), file intake (FileUploader) and the transcription      *)
(* client (transcribeAudio), as one state machine.                        *)
(*                                                                         *)
(* A step is one task of the browser's event loop: a click handler run to *)
(* completion, the continuation of an await, a MediaRecorder event, a     *)
(* timer tick.  React re-renders between tasks, so a handler started from *)
(* the UI reads the current state.                                        *)
(*                                                                         *)
(* A nullable value is a sequence of length at most one: Null is <<>>,    *)
(* Some(x) is <<x>>.  A media type is the sequence of its parts:          *)
(* "audio/wav" is <<"audio/", "wav">> and the empty string is <<>>.       *)
(***************************************************************************)
EXTENDS Naturals, Sequences, FiniteSets

\* ------------------------------------------------------------- bounds
\* startRecording calls, files offered, transcribeAudio calls awaited at once,
\* AudioRecorder mounts, and seconds counted, in one run of the page.
MaxSessions == 1
MaxFiles == 1
MaxRequests == 2
MaxMounts == 1
MaxDuration == 1

Narrow == [sessions |-> MaxSessions, files |-> MaxFiles, mounts |-> MaxMounts]
Wide == [sessions |-> MaxSessions + 1, files |-> MaxFiles,
         mounts |-> MaxMounts + 1]

VARIABLES
  bound,         \* how far this run of the page goes (fixed)
  apiKey,        \* API_KEY is non-empty (fixed when the page loads)
  supported,     \* the types MediaRecorder.isTypeSupported accepts (fixed)
  activeTab,     \* App: activeTab
  audioState,    \* App: audioState {blob, url, type}
  transcription, \* App: transcription {isLoading, error, result}
  requests,      \* the transcribeAudio calls whose await has not returned
  shellUrls,     \* object URLs created by App and not revoked (by blob)
  selectedFile,  \* FileUploader: selectedFile
  nFiles,        \* files offered so far
  inst,          \* the mounted AudioRecorder instance (mounts so far)
  rec,           \* AudioRecorder state of the mounted instance
  refs,          \* AudioRecorder refs, per instance
  sessions,      \* one entry per startRecording call
  nSess,         \* startRecording calls so far
  stopQueue,     \* the stop events MediaRecorder.stop() queued, in order
  recUrls,       \* object URLs created by onstop and not revoked (by session)
  shownFor,      \* the blob whose request produced the shown result or error
  last           \* the task that ran last, with what it started from

vars == <<bound, apiKey, supported, activeTab, audioState, transcription,
          requests,
          shellUrls, selectedFile, nFiles, inst, rec, refs, sessions, nSess,
          stopQueue, recUrls, shownFor, last>>

shellVars == <<audioState, transcription, shellUrls, shownFor>>
requestVars == <<requests>>
uploaderVars == <<selectedFile, nFiles>>
recorderVars == <<rec, refs, sessions, nSess, stopQueue, recUrls>>

\* ------------------------------------------------------------- values
Null == <<>>
Some(x) == <<x>>

MICROPHONE == "MICROPHONE"
UPLOAD == "UPLOAD"

AudioWav == <<"audio/", "wav">>
TextPlain == <<"text/", "plain">>
EmptyType == <<>>
AudioWebmOpus == <<"audio/", "webm;codecs=opus">>
AudioWebm == <<"audio/", "webm">>
AudioMp4 == <<"audio/", "mp4">>
AudioAac == <<"audio/", "aac">>
AudioOgg == <<"audio/", "ogg">>

\* The platforms the page may run on, each by the types it supports.
Platforms == {{AudioMp4, AudioOgg}}

\* What a recorder built with no mimeType option reports as its mimeType:
\* nothing, or the container the platform chose.
PlatformDefaultTypes == {EmptyType, AudioWav}

\* The types startRecording asks isTypeSupported about.
Platforms_Types == {AudioWebmOpus, AudioWebm, AudioMp4, AudioAac, AudioOgg}

\* Every answer isTypeSupported can give over those types, and a platform that
\* supports none of them but records audio/wav.
AllPlatforms == (SUBSET Platforms_Types) \cup {{AudioWav}}

\* The mimeType of a recorder built with no mimeType option, on a platform:
\* one platform gives all its recorders the same default.
PlatformDefault(sup) == IF AudioWav \in sup THEN AudioWav ELSE EmptyType

\* The declared types of the files offered to intake.
FileTypes == {AudioWav, TextPlain, EmptyType}

\* The message of an error the service call rejects with ("" is no message).
FailMessages == {"", "service unavailable"}

MissingKeyMessage == "API Key is missing. Please ensure process.env.API_KEY is set."
EmptyResultMessage == "No transcription generated."
FallbackMessage == "An unexpected error occurred during transcription."

NoAudio == [blob |-> Null, url |-> Null, type |-> Null]
IdleTranscription == [isLoading |-> FALSE, error |-> Null, result |-> Null]
LoadingTranscription == [isLoading |-> TRUE, error |-> Null, result |-> Null]

\* A blob is named by where it came from: a recording session or a file.
RecordingBlob(s, type) == [kind |-> "recording", id |-> s, type |-> type]
FileBlob(f, type) == [kind |-> "file", id |-> f, type |-> type]
BlobKey(b) == [kind |-> b.kind, id |-> b.id]

\* File.name of a file blob: each file offered has its own name.
FileName(b) == [nameOf |-> b.id]

\* audioState.name, an optional field: null when the object has none.
AudioStateName(a) == IF "name" \in DOMAIN a THEN Some(a.name) ELSE Null

\* The text the service returns for a blob: the transcript of that audio.
TranscriptOf(b) == [transcriptOf |-> BlobKey(b)]

NoRequest == [st |-> "none", blob |-> Null]
FreshRecorder == [isRecording |-> FALSE, duration |-> 0, audioUrl |-> Null]
NoRefs == [mediaRecorderRef |-> 0, timerRef |-> 0, animationFrameRef |-> 0,
           chunksRef |-> <<>>]
NoSession == [st |-> "none", inst |-> 0, stream |-> FALSE, timer |-> FALSE,
              selected |-> EmptyType, mimeType |-> EmptyType,
              isRecording |-> FALSE, frame |-> FALSE, painted |-> FALSE,
              blobParts |-> <<>>]

\* What the page shows of a transcription state.
Shown(t) == IF t.isLoading THEN "loading"
            ELSE IF t.error # Null THEN "error"
            ELSE IF t.result # Null THEN "result"
            ELSE "idle"

\* A task, its argument, and what the page showed when it started.
Task(op, arg) == [op |-> op, arg |-> arg, pre |-> Shown(transcription)]

\* ------------------------------------------------------------- App
\* URL.revokeObjectURL(audioState.url) when audioState.url is set.
RevokeShellUrl == IF audioState.url # Null THEN shellUrls \ {audioState.url[1]}
                  ELSE shellUrls

AppHandleAudioReady_KeepsTranscription(blob) ==
  /\ audioState' = [blob |-> Some(blob), url |-> Some(BlobKey(blob)),
                    type |-> Some(blob.type)]
  /\ shellUrls' = shellUrls \cup {BlobKey(blob)}
  /\ UNCHANGED <<transcription, shownFor>>

AppHandleAudioReady(blob) ==
  /\ audioState' = [blob |-> Some(blob), url |-> Some(BlobKey(blob)),
                    type |-> Some(blob.type)]
  /\ shellUrls' = shellUrls \cup {BlobKey(blob)}
  /\ transcription' = IdleTranscription
  /\ shownFor' = Null

AppHandleClear ==
  /\ shellUrls' = RevokeShellUrl
  /\ audioState' = NoAudio
  /\ transcription' = IdleTranscription
  /\ shownFor' = Null

\* !audioState.blob || !audioState.type
NothingToTranscribe == \/ audioState.blob = Null
                       \/ audioState.type = Null
                       \/ audioState.type = Some(EmptyType)

\* disabled={!audioState.blob || transcription.isLoading}
SubmitDisabled == audioState.blob = Null \/ transcription.isLoading

\* A transcribeAudio call that is awaited takes the first free place.
HasFreeSlot == \E r \in 1..MaxRequests : requests[r].st = "none"
FreeSlot == CHOOSE r \in 1..MaxRequests :
              /\ requests[r].st = "none"
              /\ \A q \in 1..MaxRequests : requests[q].st = "none" => r <= q

\* handleTranscribe reaches the service call: its guard passes and there is a key.
WillCallService == ~NothingToTranscribe /\ apiKey

\* transcribeAudio up to its first await: with no key it throws, and the catch
\* of handleTranscribe runs before any other task.
AppHandleTranscribe_NoGuard ==
  IF ~apiKey
  THEN /\ transcription' = [isLoading |-> FALSE,
                            error |-> Some(MissingKeyMessage), result |-> Null]
       /\ shownFor' = audioState.blob
       /\ UNCHANGED requests
  ELSE /\ transcription' = LoadingTranscription
       /\ shownFor' = Null
       /\ requests' = [requests EXCEPT ![FreeSlot] =
                         [st |-> "encoding", blob |-> audioState.blob]]

AppHandleTranscribe_KeyCheckedLate ==
  IF NothingToTranscribe
  THEN UNCHANGED <<transcription, shownFor, requests>>
  ELSE /\ transcription' = LoadingTranscription
       /\ shownFor' = Null
       /\ requests' = [requests EXCEPT ![FreeSlot] =
                         [st |-> "encoding", blob |-> audioState.blob]]

AppHandleTranscribe ==
  IF NothingToTranscribe
  THEN UNCHANGED <<transcription, shownFor, requests>>
  ELSE IF ~apiKey
  THEN /\ transcription' = [isLoading |-> FALSE,
                            error |-> Some(MissingKeyMessage), result |-> Null]
       /\ shownFor' = audioState.blob
       /\ UNCHANGED requests
  ELSE /\ transcription' = LoadingTranscription
       /\ shownFor' = Null
       /\ requests' = [requests EXCEPT ![FreeSlot] =
                         [st |-> "encoding", blob |-> audioState.blob]]

\* The state handleTranscribe sets when the awaited call returns text.
TranscribeResolved(text) == [isLoading |-> FALSE, error |-> Null, result |-> Some(text)]

TranscribeRejected_KeepsResult(message) ==
  [isLoading |-> FALSE,
   error |-> Some(IF message # "" THEN message ELSE FallbackMessage),
   result |-> transcription.result]

TranscribeRejected_StaysLoading(message) ==
  [isLoading |-> TRUE,
   error |-> Some(IF message # "" THEN message ELSE FallbackMessage),
   result |-> Null]

\* The state the catch of handleTranscribe sets: error.message || fallback.
TranscribeRejected(message) ==
  [isLoading |-> FALSE,
   error |-> Some(IF message # "" THEN message ELSE FallbackMessage),
   result |-> Null]

\* ------------------------------------------------------------- transcribeAudio
\* blobToBase64 has returned: generateContent is called (the network request).
EncodeDone(r) ==
  /\ requests[r].st = "encoding"
  /\ requests' = [requests EXCEPT ![r].st = "sent"]
  /\ last' = Task("encodeDone", r)
  /\ UNCHANGED <<bound, apiKey, supported, activeTab, shellVars, uploaderVars, inst,
                 recorderVars>>

\* The response holds text: handleTranscribe's await returns it.
RespondText(r) ==
  /\ requests[r].st = "sent"
  /\ requests' = [requests EXCEPT ![r] = NoRequest]
  /\ transcription' = TranscribeResolved(TranscriptOf(requests[r].blob[1]))
  /\ shownFor' = requests[r].blob
  /\ last' = Task("respondText", r)
  /\ UNCHANGED <<bound, apiKey, supported, activeTab, audioState, shellUrls,
                 uploaderVars, inst, recorderVars>>

\* The response holds no text: transcribeAudio throws "No transcription generated."
RespondEmpty(r) ==
  /\ requests[r].st = "sent"
  /\ requests' = [requests EXCEPT ![r] = NoRequest]
  /\ transcription' = TranscribeRejected(EmptyResultMessage)
  /\ shownFor' = requests[r].blob
  /\ last' = Task("respondEmpty", r)
  /\ UNCHANGED <<bound, apiKey, supported, activeTab, audioState, shellUrls,
                 uploaderVars, inst, recorderVars>>

\* The encoding or the call fails: the error is rethrown to handleTranscribe.
RequestFails(r, message) ==
  /\ requests[r].st \in {"encoding", "sent"}
  /\ requests' = [requests EXCEPT ![r] = NoRequest]
  /\ transcription' = TranscribeRejected(message)
  /\ shownFor' = requests[r].blob
  /\ last' = Task("requestFails", r)
  /\ UNCHANGED <<bound, apiKey, supported, activeTab, audioState, shellUrls,
                 uploaderVars, inst, recorderVars>>

\* ------------------------------------------------------------- App events
\* The "Generate Transcript" button, clickable when not disabled.
ClickSubmit ==
  /\ ~SubmitDisabled
  /\ WillCallService => HasFreeSlot
  /\ AppHandleTranscribe
  /\ last' = Task("handleTranscribe", 0)
  /\ UNCHANGED <<bound, apiKey, supported, activeTab, audioState, shellUrls, uploaderVars,
                 inst, recorderVars>>

\* handleTranscribe called whatever the button shows.
InvokeHandleTranscribe ==
  /\ WillCallService => HasFreeSlot
  /\ AppHandleTranscribe
  /\ last' = Task("handleTranscribe", 0)
  /\ UNCHANGED <<bound, apiKey, supported, activeTab, audioState, shellUrls, uploaderVars,
                 inst, recorderVars>>

ClickTab_NoClear(tab) ==
  /\ activeTab = UPLOAD /\ tab = MICROPHONE => inst < bound.mounts
  /\ activeTab' = tab
  /\ UNCHANGED shellVars
  /\ IF tab = activeTab
     THEN UNCHANGED <<inst, rec, selectedFile>>
     ELSE /\ inst' = IF tab = MICROPHONE THEN inst + 1 ELSE inst
          /\ rec' = FreshRecorder
          /\ selectedFile' = Null
  /\ last' = Task("clickTab", 0)
  /\ UNCHANGED <<bound, apiKey, supported, requestVars, nFiles, refs, sessions, nSess,
                 stopQueue, recUrls>>

\* A tab button: setActiveTab(tab); handleClear().  A change of tab unmounts the
\* one input component and mounts the other, with fresh state.
ClickTab(tab) ==
  /\ activeTab = UPLOAD /\ tab = MICROPHONE => inst < bound.mounts
  /\ activeTab' = tab
  /\ AppHandleClear
  /\ IF tab = activeTab
     THEN UNCHANGED <<inst, rec, selectedFile>>
     ELSE /\ inst' = IF tab = MICROPHONE THEN inst + 1 ELSE inst
          /\ rec' = FreshRecorder
          /\ selectedFile' = Null
  /\ last' = Task("clickTab", 0)
  /\ UNCHANGED <<bound, apiKey, supported, requestVars, nFiles, refs, sessions, nSess,
                 stopQueue, recUrls>>

\* ------------------------------------------------------------- FileUploader
\* file.type.startsWith('audio/')
StartsWithAudio(type) == Len(type) > 0 /\ type[1] = "audio/"

\* onDrop of the drop zone (rendered while no file is selected).
HandleDrop(type) ==
  /\ activeTab = UPLOAD
  /\ selectedFile = Null
  /\ nFiles < bound.files
  /\ IF StartsWithAudio(type)
     THEN /\ selectedFile' = Some(FileBlob(nFiles + 1, type))
          /\ nFiles' = nFiles + 1
          /\ AppHandleAudioReady(FileBlob(nFiles + 1, type))
     ELSE UNCHANGED <<selectedFile, nFiles, shellVars>>
  /\ last' = Task("handleDrop", IF StartsWithAudio(type) THEN nFiles + 1 ELSE 0)
  /\ UNCHANGED <<bound, apiKey, supported, activeTab, requestVars, inst, recorderVars>>

\* onChange of the file input (rendered while no file is selected).
HandleChange(type) ==
  /\ activeTab = UPLOAD
  /\ selectedFile = Null
  /\ nFiles < bound.files
  /\ selectedFile' = Some(FileBlob(nFiles + 1, type))
  /\ nFiles' = nFiles + 1
  /\ AppHandleAudioReady(FileBlob(nFiles + 1, type))
  /\ last' = Task("handleChange", nFiles + 1)
  /\ UNCHANGED <<bound, apiKey, supported, activeTab, requestVars, inst, recorderVars>>

\* The X button of the selected file's card.
HandleRemove ==
  /\ activeTab = UPLOAD
  /\ selectedFile # Null
  /\ selectedFile' = Null
  /\ AppHandleClear
  /\ last' = Task("handleRemove", 0)
  /\ UNCHANGED <<bound, apiKey, supported, activeTab, requestVars, nFiles, inst, recorderVars>>

\* ------------------------------------------------------------- AudioRecorder
\* The session's component instance is the one on the page.
Mounted(s) == activeTab = MICROPHONE /\ sessions[s].inst = inst

mimeTypes == <<AudioWebmOpus, AudioWebm, AudioMp4, AudioAac, AudioOgg>>

SelectMimeType_Last(sup) ==
  LET hits == {i \in 1..Len(mimeTypes) : mimeTypes[i] \in sup}
  IN IF hits = {} THEN EmptyType
     ELSE mimeTypes[CHOOSE i \in hits : \A j \in hits : i >= j]

\* The loop over mimeTypes: the first supported type, or ''.
SelectMimeType(sup) ==
  LET hits == {i \in 1..Len(mimeTypes) : mimeTypes[i] \in sup}
  IN IF hits = {} THEN EmptyType
     ELSE mimeTypes[CHOOSE i \in hits : \A j \in hits : i <= j]

\* new MediaRecorder(stream, options).mimeType
ReportedMimeTypes(selected) ==
  IF selected # EmptyType THEN {selected} ELSE {PlatformDefault(supported)}

FinalMimeType_NoDefault(reported, selected) ==
  IF reported # EmptyType THEN reported ELSE selected

\* mediaRecorderRef.current?.mimeType || selectedMimeType || 'audio/webm'
FinalMimeType(reported, selected) ==
  IF reported # EmptyType THEN reported
  ELSE IF selected # EmptyType THEN selected
  ELSE AudioWebm

\* canvasRef.current is set: the canvas is rendered by the mounted instance
\* while its isRecording is true and it holds no audioUrl.
CanvasMounted(i) ==
  activeTab = MICROPHONE /\ i = inst /\ rec.isRecording /\ rec.audioUrl = Null

\* draw(): returns at once unless the isRecording of its closure is true;
\* otherwise it requests the next frame and paints the bars.  startRecording is
\* reachable only from a render with isRecording false, so no call of draw
\* requests a frame and the page has no frame callback to run.
Draw(closureIsRecording) == closureIsRecording

DrawVisualizer_NoGuards(i, closureIsRecording) == TRUE

\* drawVisualizer(): returns unless analyserRef (set earlier in startRecording)
\* and canvasRef are set; otherwise draw().  TRUE when a frame was painted and
\* the next one requested.
DrawVisualizer(i, closureIsRecording) ==
  CanvasMounted(i) /\ Draw(closureIsRecording)

\* The microphone button while it shows the microphone: startRecording up to
\* its await of getUserMedia.  The call keeps the isRecording of the render
\* that created it.
StartRecording ==
  /\ activeTab = MICROPHONE
  /\ rec.audioUrl = Null
  /\ ~rec.isRecording
  /\ nSess < bound.sessions
  /\ nSess' = nSess + 1
  /\ sessions' = [sessions EXCEPT ![nSess + 1] =
                    [NoSession EXCEPT !.st = "requesting", !.inst = inst,
                                      !.isRecording = rec.isRecording]]
  /\ last' = Task("startRecording", nSess + 1)
  /\ UNCHANGED <<bound, apiKey, supported, activeTab, shellVars, requestVars, uploaderVars,
                 inst, rec, refs, stopQueue, recUrls>>

\* getUserMedia rejects: the catch of startRecording alerts.
GetUserMediaRejected(s) ==
  /\ sessions[s].st = "requesting"
  /\ sessions' = [sessions EXCEPT ![s] = [NoSession EXCEPT !.st = "failed"]]
  /\ last' = Task("getUserMediaRejected", s)
  /\ UNCHANGED <<bound, apiKey, supported, activeTab, shellVars, requestVars, uploaderVars,
                 inst, rec, refs, nSess, stopQueue, recUrls>>

\* getUserMedia resolves and a statement after it throws before the recorder is
\* stored (the AudioContext or the MediaRecorder constructor): the catch of
\* startRecording alerts, and the stream stays as getUserMedia returned it.
StartThrows(s) ==
  /\ sessions[s].st = "requesting"
  /\ sessions' = [sessions EXCEPT ![s].st = "failed", ![s].stream = TRUE]
  /\ last' = Task("startThrows", s)
  /\ UNCHANGED <<bound, apiKey, supported, activeTab, shellVars, requestVars, uploaderVars,
                 inst, rec, refs, nSess, stopQueue, recUrls>>

\* getUserMedia resolves: the rest of startRecording, which has no other await.
\* The state setters of an unmounted instance do nothing.
GetUserMediaGranted(s, reported) ==
  /\ sessions[s].st = "requesting"
  /\ reported \in ReportedMimeTypes(SelectMimeType(supported))
  /\ LET drawn == DrawVisualizer(sessions[s].inst, sessions[s].isRecording)
     IN /\ sessions' = [sessions EXCEPT ![s] =
                          [@ EXCEPT !.st = "recording", !.stream = TRUE,
                                    !.timer = TRUE,
                                    !.selected = SelectMimeType(supported),
                                    !.mimeType = reported,
                                    !.frame = drawn, !.painted = drawn]]
        /\ refs' = [refs EXCEPT ![sessions[s].inst] =
                      [mediaRecorderRef |-> s, timerRef |-> s,
                       animationFrameRef |-> IF drawn THEN s ELSE @.animationFrameRef,
                       chunksRef |-> <<>>]]
  /\ rec' = IF Mounted(s) THEN [rec EXCEPT !.isRecording = TRUE, !.duration = 0]
            ELSE rec
  /\ last' = Task("getUserMediaGranted", s)
  /\ UNCHANGED <<bound, apiKey, supported, activeTab, shellVars, requestVars, uploaderVars,
                 inst, nSess, stopQueue, recUrls>>

\* The microphone button while it shows the square: stopRecording.
\* MediaRecorder.stop() queues the task that fires the stop event (the tasks of
\* one task source run in the order they were queued); clearInterval ends the
\* timer timerRef holds.
StopRecording ==
  /\ activeTab = MICROPHONE
  /\ rec.audioUrl = Null
  /\ rec.isRecording
  /\ IF refs[inst].mediaRecorderRef # 0 /\ rec.isRecording
     THEN /\ sessions' =
               [s \in DOMAIN sessions |->
                  [sessions[s] EXCEPT
                     !.st = IF s = refs[inst].mediaRecorderRef /\ @ = "recording"
                            THEN "stopping" ELSE @,
                     !.timer = IF s = refs[inst].timerRef THEN FALSE ELSE @]]
          /\ stopQueue' =
               IF sessions[refs[inst].mediaRecorderRef].st = "recording"
               THEN Append(stopQueue, refs[inst].mediaRecorderRef) ELSE stopQueue
          /\ rec' = [rec EXCEPT !.isRecording = FALSE]
     ELSE UNCHANGED <<sessions, stopQueue, rec>>
  /\ last' = Task("stopRecording", refs[inst].mediaRecorderRef)
  /\ UNCHANGED <<bound, apiKey, supported, activeTab, shellVars, requestVars, uploaderVars,
                 inst, refs, nSess, recUrls>>

\* mediaRecorder.onstop of session s, the first stop event queued: the blob,
\* its URL, onAudioReady(blob), the tracks of this session's stream stopped,
\* and the frame animationFrameRef holds cancelled.  The recorder was started
\* with no timeslice: the task stop() queued first fires dataavailable with all
\* the data the session gathered (one chunk, taken as non-empty, named by its
\* session), which ondataavailable pushes on chunksRef.current.
OnStop(s) ==
  /\ stopQueue # <<>>
  /\ s = Head(stopQueue)
  /\ stopQueue' = Tail(stopQueue)
  /\ refs' = [refs EXCEPT ![sessions[s].inst].chunksRef = Append(@, s)]
  /\ LET current == refs[sessions[s].inst].mediaRecorderRef
         reported == IF current # 0 THEN sessions[current].mimeType ELSE EmptyType
         blob == RecordingBlob(s, FinalMimeType(reported, sessions[s].selected))
     IN /\ recUrls' = recUrls \cup {s}
        /\ rec' = IF Mounted(s) THEN [rec EXCEPT !.audioUrl = Some(s)] ELSE rec
        /\ AppHandleAudioReady(blob)
  /\ sessions' =
       [t \in DOMAIN sessions |->
          [sessions[t] EXCEPT
             !.st = IF t = s THEN "finalized" ELSE @,
             !.stream = IF t = s THEN FALSE ELSE @,
             !.blobParts = IF t = s
                           THEN Append(refs[sessions[s].inst].chunksRef, s) ELSE @,
             !.frame = IF t = refs[sessions[s].inst].animationFrameRef
                       THEN FALSE ELSE @]]
  /\ last' = Task("onstop", s)
  /\ UNCHANGED <<bound, apiKey, supported, activeTab, requestVars, uploaderVars, inst,
                 nSess>>

\* One firing of the interval timer session s created: setDuration(prev => prev + 1).
Tick(s) ==
  /\ sessions[s].timer
  /\ Mounted(s) => rec.duration < MaxDuration
  /\ rec' = IF Mounted(s) THEN [rec EXCEPT !.duration = @ + 1] ELSE rec
  /\ last' = Task("tick", s)
  /\ UNCHANGED <<bound, apiKey, supported, activeTab, shellVars, requestVars, uploaderVars,
                 inst, refs, sessions, nSess, stopQueue, recUrls>>

RecorderHandleClear_NoRevoke ==
  /\ activeTab = MICROPHONE
  /\ rec.audioUrl # Null
  /\ rec' = [rec EXCEPT !.audioUrl = Null, !.duration = 0]
  /\ UNCHANGED recUrls
  /\ refs' = [refs EXCEPT ![inst].chunksRef = <<>>]
  /\ AppHandleClear
  /\ last' = Task("recorderClear", rec.audioUrl[1])
  /\ UNCHANGED <<bound, apiKey, supported, activeTab, requestVars, uploaderVars, inst,
                 sessions, nSess, stopQueue>>

\* The trash and "Record New" buttons of the recorded-audio card: handleClear.
RecorderHandleClear ==
  /\ activeTab = MICROPHONE
  /\ rec.audioUrl # Null
  /\ rec' = [rec EXCEPT !.audioUrl = Null, !.duration = 0]
  /\ recUrls' = recUrls \ {rec.audioUrl[1]}
  /\ refs' = [refs EXCEPT ![inst].chunksRef = <<>>]
  /\ AppHandleClear
  /\ last' = Task("recorderClear", rec.audioUrl[1])
  /\ UNCHANGED <<bound, apiKey, supported, activeTab, requestVars, uploaderVars, inst,
                 sessions, nSess, stopQueue>>

\* ------------------------------------------------------------- the system
InitOn(b, platforms) ==
  /\ bound = b
  /\ apiKey \in BOOLEAN
  /\ supported \in platforms
  /\ activeTab = MICROPHONE
  /\ audioState = NoAudio
  /\ transcription = IdleTranscription
  /\ requests = [r \in 1..MaxRequests |-> NoRequest]
  /\ shellUrls = {}
  /\ selectedFile = Null
  /\ nFiles = 0
  /\ inst = 1
  /\ rec = FreshRecorder
  /\ refs = [i \in 1..Wide.mounts |-> NoRefs]
  /\ sessions = [s \in 1..Wide.sessions |-> NoSession]
  /\ nSess = 0
  /\ stopQueue = <<>>
  /\ recUrls = {}
  /\ shownFor = Null
  /\ last = [op |-> "init", arg |-> 0, pre |-> "idle"]

InitWith(b) == InitOn(b, Platforms)

Init == InitWith(Narrow)

InitWide == InitWith(Wide)

\* What the page and its environment can do, the submit button apart.
Events ==
  \/ \E tab \in {MICROPHONE, UPLOAD} : ClickTab(tab)
  \/ \E type \in FileTypes : HandleDrop(type)
  \/ \E type \in FileTypes : HandleChange(type)
  \/ HandleRemove
  \/ StartRecording
  \/ \E s \in 1..Wide.sessions : GetUserMediaRejected(s)
  \/ \E s \in 1..Wide.sessions : StartThrows(s)
  \/ \E s \in 1..Wide.sessions : \E m \in PlatformDefaultTypes \cup Platforms_Types :
       GetUserMediaGranted(s, m)
  \/ StopRecording
  \/ \E s \in 1..Wide.sessions : OnStop(s)
  \/ \E s \in 1..Wide.sessions : Tick(s)
  \/ RecorderHandleClear
  \/ \E r \in 1..MaxRequests : EncodeDone(r)
  \/ \E r \in 1..MaxRequests : RespondText(r)
  \/ \E r \in 1..MaxRequests : RespondEmpty(r)
  \/ \E r \in 1..MaxRequests : \E m \in FailMessages : RequestFails(r, m)

Next == ClickSubmit \/ Events

Spec == Init /\ [][Next]_vars

\* The same page followed further: more recordings, files and mounts.
SpecWide == InitWide /\ [][Next]_vars

\* The same page with handleTranscribe also called directly, whatever the
\* button's disabled attribute says.
NextDirect == InvokeHandleTranscribe \/ Events

SpecDirect == Init /\ [][NextDirect]_vars

\* The awaited call r returns or throws.
Completes(r) ==
  \/ RespondText(r)
  \/ RespondEmpty(r)
  \/ \E m \in FailMessages : RequestFails(r, m)

\* Every encoding finishes and every service call completes or fails.
ServiceAnswers ==
  \A r \in 1..MaxRequests : WF_vars(EncodeDone(r)) /\ WF_vars(Completes(r))

\* The page with a service that answers.
SpecLive == Init /\ [][Next]_vars /\ ServiceAnswers

\* The same page on every platform.
InitPlatforms == InitOn(Narrow, AllPlatforms)

SpecPlatforms == InitPlatforms /\ [][Next]_vars

\* ------------------------------------------------------------- claims
Displayed == transcription.error # Null \/ transcription.result # Null

Outstanding == {r \in 1..MaxRequests : requests[r].st = "sent"}

\* C1: a displayed result or error was produced by a request issued for the
\* AudioObject the shell holds now; a response to a request for an earlier
\* AudioObject is not applied once that AudioObject is cleared or replaced.
C1_DisplayedIsForCurrentAudio ==
  Displayed => (audioState.blob # Null /\ shownFor = audioState.blob)

\* C2: at most one network call to the transcription service is outstanding
\* (sent and not yet answered) at any time.
C2_AtMostOneOutstanding == Cardinality(Outstanding) <= 1

\* C3: at most one of error and result is non-null.
C3_ErrorOrResult == ~(transcription.error # Null /\ transcription.result # Null)

\* C3's case: a failure is applied while the page shows something other than
\* the loading state the request set.
C3_Witness ==
  /\ last.op \in {"requestFails", "respondEmpty"}
  /\ last.pre # "loading"
  /\ transcription.error # Null

\* The tasks that deliver an AudioObject to handleAudioReady.
Delivered ==
  \/ last.op \in {"onstop", "handleChange"}
  \/ last.op = "handleDrop" /\ last.arg # 0

\* C4: right after a new AudioObject is delivered to the shell (recorder stop
\* or file selection), transcription is {isLoading: false, error: null,
\* result: null}, whatever it was before.
C4_DeliveryResets ==
  Delivered => (audioState.blob # Null /\ transcription = IdleTranscription)

\* C4's case: audio delivered while the page showed a request in progress.
C4_Witness == Delivered /\ last.pre = "loading" /\ transcription = IdleTranscription

\* C5: right after a click on either tab the shell holds no AudioObject (blob,
\* url and type null) and error and result are null.
C5_TabClickClears ==
  last.op = "clickTab" =>
    /\ audioState = NoAudio
    /\ transcription.error = Null
    /\ transcription.result = Null

\* C5's case: a tab clicked while a result was displayed.
C5_Witness == last.op = "clickTab" /\ last.pre = "result" /\ audioState = NoAudio

\* C6: handleTranscribe called while the shell holds no AudioObject issues no
\* request and leaves transcription as it was, whatever the button shows.
C6_SubmitWithoutAudio ==
  [][(last'.op = "handleTranscribe" /\ audioState.blob = Null)
       => UNCHANGED <<transcription, requests>>]_vars

\* C6's case: handleTranscribe has run with no AudioObject while the page
\* showed the answer of an earlier request.
C6_Witness ==
  /\ last.op = "handleTranscribe"
  /\ audioState.blob = Null
  /\ last.pre \in {"error", "result"}
  /\ Shown(transcription) = last.pre

\* The sessions started by the AudioRecorder instance on the page.
OwnSessions == {s \in 1..Wide.sessions : sessions[s].st # "none" /\ Mounted(s)}

\* stop() has been called on a session and its onstop has not run yet.
InStopWindow(except) ==
  \E s \in OwnSessions \ {except} : sessions[s].st = "stopping"

\* C7: once stop() has been invoked, start() does not run again until clear()
\* has been executed: not between stop() and onstop, and not while a
\* finalized recording is held.
C7_NoStartBeforeClear ==
  /\ last.op = "startRecording" =>
       (~InStopWindow(last.arg) /\ rec.audioUrl = Null)
  /\ (last.op = "getUserMediaGranted" /\ Mounted(last.arg)) =>
       (~InStopWindow(last.arg) /\ rec.audioUrl = Null)

\* The engine is Idle or Stopped: not recording, no start in progress, and
\* every stop() finalized.
EngineAtRest ==
  /\ activeTab = MICROPHONE
  /\ ~rec.isRecording
  /\ \A s \in OwnSessions : sessions[s].st \notin {"requesting", "stopping"}

\* C8: with the engine Idle or Stopped, after stop() and its finalization, no
\* stream the engine acquired is still live.
C8_StreamsReleased ==
  EngineAtRest => \A s \in OwnSessions : ~sessions[s].stream

\* C9: duration is incremented only while the engine is Recording; once stop()
\* has been invoked no interval timer of the engine is live (so duration stays
\* as it is until clear or the next start).
C9_TimerStopsWithRecording ==
  /\ (last.op = "tick" /\ Mounted(last.arg)) => rec.isRecording
  /\ (activeTab = MICROPHONE /\ ~rec.isRecording) =>
       \A s \in OwnSessions : ~sessions[s].timer

\* C10: right after clear on a finalized recording, every object URL created
\* for that recording, by the recorder and by the shell, is revoked, and
\* duration is zero.
C10_ClearReleasesUrls ==
  last.op = "recorderClear" =>
    /\ last.arg \notin recUrls
    /\ BlobKey(RecordingBlob(last.arg, EmptyType)) \notin shellUrls
    /\ rec.duration = 0

\* C10's case: the second recording of the page, finalized and then cleared.
C10_Witness ==
  /\ last.op = "recorderClear"
  /\ last.arg = 2
  /\ sessions[2].st = "finalized"
  /\ rec.audioUrl = Null

\* C11: a switch of input mode while the shell holds an AudioObject leaves no
\* unrevoked object URL of that AudioObject: neither the one the shell created
\* nor, for a recording, the one its onstop created.
C11_ModeSwitchRevokes ==
  [][(activeTab' # activeTab /\ audioState.blob # Null) =>
       /\ BlobKey(audioState.blob[1]) \notin shellUrls'
       /\ audioState.blob[1].kind = "recording" =>
            audioState.blob[1].id \notin recUrls']_vars

\* The file the shell holds as its AudioObject, if it holds one.
HeldFiles == {b \in {audioState.blob[i] : i \in DOMAIN audioState.blob} : b.kind = "file"}

\* C12: a file offered by drop or by the picker is emitted to the shell if and
\* only if its declared type starts with "audio/": the shell never holds a
\* file of another type (text/plain), and an offered audio file is held.
C12_EmittedIffAudio ==
  /\ \A b \in HeldFiles : StartsWithAudio(b.type)
  /\ (last.op \in {"handleDrop", "handleChange"} /\ selectedFile # Null) =>
       audioState.blob = selectedFile

\* C13: the AudioObject a recording's onstop emits has a non-empty type: the
\* mimeType the recorder of that session reported, or else the type selected at
\* its start, or else audio/webm.
C13_EmittedTypeOfRecording ==
  last.op = "onstop" =>
    LET own == sessions[last.arg]
        expected == IF own.mimeType # EmptyType THEN own.mimeType
                    ELSE IF own.selected # EmptyType THEN own.selected
                    ELSE AudioWebm
    IN /\ audioState.blob = Some(RecordingBlob(last.arg, expected))
       /\ audioState.type = Some(expected)
       /\ expected # EmptyType

\* C13's case: a recording stopped on a platform that supports none of the
\* listed types and reports no type, emitted as audio/webm.
C13_Witness ==
  /\ last.op = "onstop"
  /\ supported = {}
  /\ sessions[last.arg].mimeType = EmptyType
  /\ audioState.type = Some(AudioWebm)

\* C14: after a drop of an audio file the shell's AudioObject has the name of
\* the dropped file and its declared type.
C14_DroppedFileNameAndType ==
  (last.op = "handleDrop" /\ last.arg # 0) =>
    /\ selectedFile # Null
    /\ audioState.blob = selectedFile
    /\ audioState.type = Some(selectedFile[1].type)
    /\ AudioStateName(audioState) = Some(FileName(selectedFile[1]))

\* C15: with no API key, transcribeAudio fails before the audio is encoded and
\* before a request is sent: no call is ever awaited, and right after
\* handleTranscribe the shell shows the configuration error, isLoading false
\* and result null.
C15_NoKeyFailsBeforeEncoding ==
  ~apiKey =>
    /\ \A r \in 1..MaxRequests : requests[r] = NoRequest
    /\ (last.op = "handleTranscribe" /\ ~NothingToTranscribe) =>
         /\ ~transcription.isLoading
         /\ transcription.error = Some(MissingKeyMessage)
         /\ transcription.result = Null

\* C15's case: an AudioObject submitted on a page built with no key.
C15_Witness ==
  /\ ~apiKey
  /\ last.op = "handleTranscribe"
  /\ ~NothingToTranscribe
  /\ transcription.error = Some(MissingKeyMessage)

\* C16: while the engine is Recording the visualizer paints on every frame:
\* right after a successful start on the page, the bars have been painted and
\* the next frame is requested.
C16_PaintsWhileRecording ==
  (last.op = "getUserMediaGranted" /\ Mounted(last.arg) /\ rec.isRecording) =>
    (sessions[last.arg].painted /\ sessions[last.arg].frame)

\* C17: once a session's stop is finalized, no animation frame of its
\* visualizer is requested any more (so nothing paints for it again).
C17_NoFrameAfterStop ==
  \A s \in 1..Wide.sessions : sessions[s].st = "finalized" => ~sessions[s].frame

\* C17's case: a session's onstop has run while a later session of the same
\* instance, whose frame animationFrameRef would hold, is recording.
C17_Witness ==
  /\ last.op = "onstop"
  /\ sessions[last.arg].st = "finalized"
  /\ \E t \in 1..Wide.sessions :
       /\ t # last.arg
       /\ sessions[t].st = "recording"
       /\ sessions[t].inst = sessions[last.arg].inst

\* C18: after a start that failed (getUserMedia rejected, or an error raised
\* later in startRecording) the session holds no stream and no timer, has
\* emitted no AudioObject, and isRecording is false unless another start of
\* the instance succeeded.
C18_FailedStartLeavesIdle ==
  last.op \in {"getUserMediaRejected", "startThrows"} =>
    /\ sessions[last.arg].st = "failed"
    /\ ~sessions[last.arg].stream
    /\ ~sessions[last.arg].timer
    /\ last.arg \notin recUrls
    /\ \A b \in {audioState.blob[i] : i \in DOMAIN audioState.blob} :
         BlobKey(b) # BlobKey(RecordingBlob(last.arg, EmptyType))
    /\ (activeTab = MICROPHONE /\ \A t \in OwnSessions : sessions[t].st # "recording")
         => ~rec.isRecording

\* The order of preference C19 states.
PreferenceOrder == <<AudioWebmOpus, AudioWebm, AudioMp4, AudioAac, AudioOgg>>

\* The sessions whose recorder was built.
Configured == {s \in 1..Wide.sessions :
                 sessions[s].st \in {"recording", "stopping", "finalized"}}

\* C19: on every platform the recorder is built with the first supported type
\* of the order of preference; when the platform supports none of them, with
\* no type, and the recorder reports the platform's default.
C19_FirstSupportedSelected ==
  \A s \in Configured :
    IF \E i \in 1..Len(PreferenceOrder) : PreferenceOrder[i] \in supported
    THEN \E i \in 1..Len(PreferenceOrder) :
           /\ sessions[s].selected = PreferenceOrder[i]
           /\ PreferenceOrder[i] \in supported
           /\ \A j \in 1..(i - 1) : PreferenceOrder[j] \notin supported
    ELSE /\ sessions[s].selected = EmptyType
         /\ sessions[s].mimeType = PlatformDefault(supported)

\* C19's case: a recorder built on a platform that supports several of the
\* listed types, the first of them not being the first of the list.
C19_Witness ==
  /\ Configured # {}
  /\ AudioWebmOpus \notin supported
  /\ Cardinality(supported) >= 2
  /\ \A s \in Configured : sessions[s].selected \in supported

\* isLoading is false and exactly one of result and error is set.
Answered ==
  /\ ~transcription.isLoading
  /\ (transcription.error # Null) # (transcription.result # Null)

\* A step sends the call of request r to the service.
Sends(r) == requests[r].st # "sent" /\ requests'[r].st = "sent"

\* handleTranscribe starts one call when it reaches the service, and no other
\* step starts one; a call is sent once, after its encoding, and a call that
\* was answered or failed is not sent again.
OneCallPerSubmit ==
  /\ Cardinality({r \in 1..MaxRequests :
                    requests[r].st = "none" /\ requests'[r].st # "none"})
       = IF last'.op = "handleTranscribe" /\ WillCallService THEN 1 ELSE 0
  /\ \A r \in 1..MaxRequests :
       /\ Sends(r) => requests[r].st = "encoding"
       /\ requests[r].st = "sent" => requests'[r].st \in {"sent", "none"}
       /\ requests[r].st = "encoding" => requests'[r].st \in {"encoding", "sent", "none"}

C21_BlobOfOwnChunks ==
  \A s \in 1..Wide.sessions :
    sessions[s].st = "finalized" => sessions[s].blobParts = <<s>>

\* The sessions of the instance on the page whose start succeeded and that hold
\* a live stream, and those whose interval timer is live.
LiveStreams == {s \in OwnSessions : sessions[s].st # "failed" /\ sessions[s].stream}
LiveTimers == {s \in OwnSessions : sessions[s].timer}

\* C22: at most one capture session is live at any time: a second start during
\* a pending one never gives two live streams or two interval timers.
C22_OneLiveSession ==
  /\ Cardinality(LiveStreams) <= 1
  /\ Cardinality(LiveTimers) <= 1

\* The sessions of the instance on the page that are Recording.
Recording == {s \in OwnSessions : sessions[s].st = "recording"}

\* C23: a switch away from the microphone while the engine is Recording
\* releases the session: right after it the session's stream and interval
\* timer are no longer live.
C23_UnmountReleases ==
  [][(activeTab = MICROPHONE /\ activeTab' # MICROPHONE) =>
       \A s \in Recording : ~sessions'[s].stream /\ ~sessions'[s].timer]_vars

\* C24: the mounted input component shows audio (a finalized recording, or a
\* selected file) if and only if the shell holds a blob.
C24_ShellAndComponentAgree ==
  (audioState.blob # Null) <=>
    IF activeTab = MICROPHONE THEN rec.audioUrl # Null ELSE selectedFile # Null

\* A call to transcribeAudio has been made and its answer is not yet applied.
RequestPending == \E r \in 1..MaxRequests : requests[r].st # "none"

\* C25: isLoading is true if and only if a request has been issued and its
\* response has not yet been applied.
C25_LoadingTracksRequest == transcription.isLoading <=> RequestPending

\* C26: on a page with a key, submit invoked while the button is enabled (a
\* blob is held and isLoading is false) sets isLoading and starts a call.
C26_EnabledSubmitStarts ==
  [][(last'.op = "handleTranscribe" /\ ~SubmitDisabled /\ apiKey) =>
       /\ transcription'.isLoading
       /\ \E r \in 1..MaxRequests :
            requests[r].st = "none" /\ requests'[r].st # "none"]_vars

====
